---- MODULE Spec2Model ----
(***************************************************************************)
(* A model of daynight.py: two balls bouncing in a grid of day/night       *)
(* cells.                                                                  *)
(*                                                                         *)
(* Numbers.  Every coordinate the program computes is of the form          *)
(* (a + b*sqrt(2))/4 with a, b integers: the grid is integral, the balls   *)
(* start at multiples of 1/2, the directions are (+-1,+-1)/sqrt(2), the    *)
(* speed is 1/2 and dt is an integer number of milliseconds.  A number is  *)
(* the pair <<a, b>>; arithmetic and comparisons on it are exact, so the   *)
(* model is the program over the reals (the program's doubles round).      *)
(***************************************************************************)
EXTENDS Integers, Sequences, FiniteSets, TLC

VARIABLES running, paused, grid, dayball, nightball,
          dayball_direction, nightball_direction,
          dt, pc, elapsed, last, probe

vars == <<running, paused, grid, dayball, nightball,
          dayball_direction, nightball_direction,
          dt, pc, elapsed, last, probe>>

(***************************************************************************)
(* Bounds of the model.                                                    *)
(***************************************************************************)
\* simulated milliseconds the main loop may advance the balls
MaxElapsed == 32800
\* simulated milliseconds under direct calls of run
MaxApiElapsed == 24
\* simulated milliseconds under direct calls of run with dt 0 or a frame
MaxTickElapsed == 480
\* simulated milliseconds of the main loop left to run unpaused
MaxLiveElapsed == 2000
\* events one pygame.event.get() may return
MaxEvents == 2
\* probe centers of the collision harness: integer coordinates 0..ProbeMax
ProbeMax == 60

(***************************************************************************)
(* Program constants.                                                      *)
(***************************************************************************)
GRIDX == 10
GRIDY == 10
RECTSIZE == 25
BALLSIZE == 10
FRAMERATE == 60
\* 0.5
BALLSPEED == <<2, 0>>

(***************************************************************************)
(* Exact arithmetic on (a + b*sqrt 2)/4.                                   *)
(***************************************************************************)
Q(k) == <<4 * k, 0>>
Add(p, q) == <<p[1] + q[1], p[2] + q[2]>>
Sub(p, q) == <<p[1] - q[1], p[2] - q[2]>>
ScaleInt(p, k) == <<p[1] * k, p[2] * k>>
DivInt(p, k) == <<p[1] \div k, p[2] \div k>>
Mul(p, q) == <<(p[1] * q[1] + 2 * p[2] * q[2]) \div 4,
               (p[1] * q[2] + p[2] * q[1]) \div 4>>
\* the square of a number, in sixteenths: (a + b*sqrt 2)^2 / 16
Sq(p) == <<p[1] * p[1] + 2 * p[2] * p[2], 2 * p[1] * p[2]>>

\* the sign of a + b*sqrt 2, by squares (|a|, |b| < 2^15, as coordinates are)
Sign(a, b) ==
    IF a = 0 /\ b = 0 THEN 0
    ELSE IF a >= 0 /\ b >= 0 THEN 1
    ELSE IF a <= 0 /\ b <= 0 THEN -1
    ELSE IF a > 0 THEN (IF a * a > 2 * b * b THEN 1 ELSE -1)
    ELSE (IF 2 * b * b > a * a THEN 1 ELSE -1)

\* the same sign for coefficients whose squares overflow: multiplying by the
\* unit 1 + sqrt 2 > 0 keeps the sign and shrinks coefficients of opposite signs
RECURSIVE SignBig(_, _)
SignBig(a, b) ==
    IF a = 0 /\ b = 0 THEN 0
    ELSE IF a >= 0 /\ b >= 0 THEN 1
    ELSE IF a <= 0 /\ b <= 0 THEN -1
    ELSE SignBig(a + 2 * b, a + b)

Lt(p, q) == Sign(p[1] - q[1], p[2] - q[2]) < 0
Gt(p, q) == Sign(p[1] - q[1], p[2] - q[2]) > 0
Le(p, q) == ~Gt(p, q)
Ge(p, q) == ~Lt(p, q)
Neg(p) == <<-p[1], -p[2]>>

\* the comparison with the touching case excluded
DistanceGe(x, y, r) ==
    \/ Gt(x, r) \/ Lt(x, Neg(r))
    \/ Gt(y, r) \/ Lt(y, Neg(r))
    \/ LET d == Sub(Add(Sq(x), Sq(y)), Sq(r)) IN SignBig(d[1], d[2]) >= 0

\* sqrt(x*x + y*y) > r for r >= 0: a component longer than r decides it,
\* otherwise the squares are compared
DistanceGt(x, y, r) ==
    \/ Gt(x, r) \/ Lt(x, Neg(r))
    \/ Gt(y, r) \/ Lt(y, Neg(r))
    \/ LET d == Sub(Add(Sq(x), Sq(y)), Sq(r)) IN SignBig(d[1], d[2]) > 0

(***************************************************************************)
(* Vector2 and Rect.                                                       *)
(***************************************************************************)
\* Python's None: the empty tuple, unequal to every vector and every hit
None == <<>>

Vector2(x, y) == <<Q(x), Q(y)>>

\* v / |v| for the integer vectors the program normalizes: length 1 or sqrt 2
normalize(x, y) ==
    IF x * x + y * y = 1 THEN <<Q(x), Q(y)>>
    ELSE <<<<0, 2 * x>>, <<0, 2 * y>>>>

Dot(v, n) == Add(Mul(v[1], n[1]), Mul(v[2], n[2]))

\* a reflection that removes the normal component instead of mirroring it
reflect_half(v, n) ==
    LET d == Dot(v, n)
    IN  <<Sub(v[1], Mul(d, n[1])), Sub(v[2], Mul(d, n[2]))>>

reflect(v, n) ==
    LET d == ScaleInt(Dot(v, n), 2)
    IN  <<Sub(v[1], Mul(d, n[1])), Sub(v[2], Mul(d, n[2]))>>

\* pygame.Rect: <<left, top, width, height>>, integers
Rect(l, t, w, h) == <<l, t, w, h>>
move(r, x, y) == <<r[1] + x, r[2] + y, r[3], r[4]>>
left(r) == r[1]
top(r) == r[2]
right(r) == r[1] + r[3]
bottom(r) == r[2] + r[4]

Cols == 0 .. (GRIDX - 1)
Rows == 0 .. (GRIDY - 1)

(***************************************************************************)
(* GameState.__init__                                                      *)
(***************************************************************************)
InitGrid ==
    [j \in Rows |-> [i \in Cols |->
        <<move(Rect(0, 0, RECTSIZE, RECTSIZE), RECTSIZE * i, RECTSIZE * j),
          2 * i < GRIDX>>]]

gridsize == Vector2(GRIDX * RECTSIZE, GRIDY * RECTSIZE)

InitDayball ==
    <<Add(DivInt(gridsize[1], 2), DivInt(gridsize[1], 4)), DivInt(gridsize[2], 2)>>

InitNightball ==
    <<Sub(DivInt(gridsize[1], 2), DivInt(gridsize[1], 4)), DivInt(gridsize[2], 2)>>

InitDayDirection == normalize(1, 1)
InitNightDirection == normalize(-1, -1)

(***************************************************************************)
(* advance_point, ball_rect_collision, run_ball                            *)
(***************************************************************************)
\* an advance that forgets the speed
advance_point_nospeed(point, direction, speed, t) ==
    <<Add(point[1], ScaleInt(direction[1], t)),
      Add(point[2], ScaleInt(direction[2], t))>>

advance_point(point, direction, speed, t) ==
    <<Add(point[1], ScaleInt(Mul(direction[1], speed), t)),
      Add(point[2], ScaleInt(Mul(direction[2], speed), t))>>

\* lines 86-103: the center clamped to [lo, hi] on one axis, and the normal of
\* that axis (low and high: the normals the code builds for the two sides)
Clamp(c, lo, hi) ==
    IF Lt(c, lo) THEN lo ELSE IF Gt(c, hi) THEN hi ELSE c

SideNormal(c, lo, hi, low, high) ==
    IF Lt(c, lo) THEN low ELSE IF Gt(c, hi) THEN high ELSE None

\* a choice that answers a corner with the normal of the side in x
ChooseNormalCorner(center, rect) ==
    LET xnormal == SideNormal(center[1], Q(left(rect)), Q(right(rect)),
                              Vector2(-1, 0), Vector2(1, 0))
        ynormal == SideNormal(center[2], Q(top(rect)), Q(bottom(rect)),
                              Vector2(1, 0), Vector2(-1, 0))
        normal == IF Le(Q(left(rect)), center[1]) /\ Le(center[1], Q(right(rect)))
                  THEN ynormal
                  ELSE xnormal
    IN  IF normal = None THEN Vector2(1, 0) ELSE normal

ChooseNormal(center, rect) ==
    LET xnormal == SideNormal(center[1], Q(left(rect)), Q(right(rect)),
                              Vector2(-1, 0), Vector2(1, 0))
        ynormal == SideNormal(center[2], Q(top(rect)), Q(bottom(rect)),
                              Vector2(1, 0), Vector2(-1, 0))
        normal == IF Le(Q(left(rect)), center[1]) /\ Le(center[1], Q(right(rect)))
                  THEN ynormal
                  ELSE IF Le(Q(top(rect)), center[2]) /\ Le(center[2], Q(bottom(rect)))
                  THEN xnormal
                  ELSE None
    IN  IF normal = None THEN Vector2(1, 0) ELSE normal

ball_rect_collision(center, radius, rect) ==
    IF DistanceGt(Sub(center[1], Clamp(center[1], Q(left(rect)), Q(right(rect)))),
                  Sub(center[2], Clamp(center[2], Q(top(rect)), Q(bottom(rect)))),
                  radius)
    THEN None
    ELSE ChooseNormal(center, rect)

\* boundary tests that look at the top and bottom before the left and right
BoundaryNormalTopFirst(new_center) ==
    IF Lt(Sub(new_center[2], Q(BALLSIZE)), Q(0)) THEN normalize(0, -1)
    ELSE IF Lt(Sub(new_center[1], Q(BALLSIZE)), Q(0)) THEN normalize(1, 0)
    ELSE IF Gt(Add(new_center[2], Q(BALLSIZE)), Q(RECTSIZE * GRIDY)) THEN normalize(0, 1)
    ELSE IF Gt(Add(new_center[1], Q(BALLSIZE)), Q(RECTSIZE * GRIDX)) THEN normalize(-1, 0)
    ELSE None

\* the boundary tests of run_ball on the tentative center
BoundaryNormal(new_center) ==
    IF Lt(Sub(new_center[1], Q(BALLSIZE)), Q(0)) THEN normalize(1, 0)
    ELSE IF Lt(Sub(new_center[2], Q(BALLSIZE)), Q(0)) THEN normalize(0, -1)
    ELSE IF Gt(Add(new_center[1], Q(BALLSIZE)), Q(RECTSIZE * GRIDX)) THEN normalize(-1, 0)
    ELSE IF Gt(Add(new_center[2], Q(BALLSIZE)), Q(RECTSIZE * GRIDY)) THEN normalize(0, 1)
    ELSE None

\* the inner loop (for i) over row j from column i: the first cell that passes
\* the test of line 152 and collides, with its normal; None when there is none
\* a scan that tests the cells of the other kind
RECURSIVE ScanFromOpposite(_, _, _, _, _)
ScanFromOpposite(center, g, ball_type, j, i) ==
    IF i = GRIDX THEN None
    ELSE IF g[j][i][2] = ball_type THEN ScanFromOpposite(center, g, ball_type, j, i + 1)
    ELSE IF ball_rect_collision(center, Q(BALLSIZE), g[j][i][1]) = None
    THEN ScanFromOpposite(center, g, ball_type, j, i + 1)
    ELSE <<i, ball_rect_collision(center, Q(BALLSIZE), g[j][i][1])>>

RECURSIVE ScanFrom(_, _, _, _, _)
ScanFrom(center, g, ball_type, j, i) ==
    IF i = GRIDX THEN None
    ELSE IF g[j][i][2] # ball_type THEN ScanFrom(center, g, ball_type, j, i + 1)
    ELSE IF ball_rect_collision(center, Q(BALLSIZE), g[j][i][1]) = None
    THEN ScanFrom(center, g, ball_type, j, i + 1)
    ELSE <<i, ball_rect_collision(center, Q(BALLSIZE), g[j][i][1])>>

ScanCols(center, g, ball_type, j) == ScanFrom(center, g, ball_type, j, 0)

\* a scan that advances from the center already moved, not the pre-tick one
RECURSIVE ScanRowsChained(_, _, _, _, _)
ScanRowsChained(center, ball_type, t, j, acc) ==
    IF j = GRIDY THEN acc
    ELSE LET hit == ScanCols(center, acc.grid, ball_type, j)
         IN  IF hit = None THEN ScanRowsChained(center, ball_type, t, j + 1, acc)
             ELSE LET new_direction == reflect(acc.direction, hit[2])
                      cell == acc.grid[j][hit[1]]
                  IN  ScanRowsChained(center, ball_type, t, j + 1,
                        [center |-> advance_point(acc.center, new_direction, BALLSPEED, t),
                         direction |-> new_direction,
                         grid |-> [acc.grid EXCEPT ![j][hit[1]] = <<cell[1], ~cell[2]>>],
                         boundary |-> acc.boundary,
                         hits |-> Append(acc.hits,
                                    [j |-> j, i |-> hit[1], normal |-> hit[2],
                                     was |-> cell[2], now |-> ~cell[2]])])

\* the outer loop (for j) from row j; the break of line 159 leaves the inner
\* loop only, so the scan goes on with row j + 1
RECURSIVE ScanRows(_, _, _, _, _)
ScanRows(center, ball_type, t, j, acc) ==
    IF j = GRIDY THEN acc
    ELSE LET hit == ScanCols(center, acc.grid, ball_type, j)
         IN  IF hit = None THEN ScanRows(center, ball_type, t, j + 1, acc)
             ELSE LET new_direction == reflect(acc.direction, hit[2])
                      cell == acc.grid[j][hit[1]]
                  IN  ScanRows(center, ball_type, t, j + 1,
                        [center |-> advance_point(center, new_direction, BALLSPEED, t),
                         direction |-> new_direction,
                         grid |-> [acc.grid EXCEPT ![j][hit[1]] = <<cell[1], ~cell[2]>>],
                         boundary |-> acc.boundary,
                         hits |-> Append(acc.hits,
                                    [j |-> j, i |-> hit[1], normal |-> hit[2],
                                     was |-> cell[2], now |-> ~cell[2]])])

\* the result: center and direction returned, the grid as left by the call,
\* and what the call did (the boundary normal used, the cells flipped in order)
run_ball(center, direction, g, ball_type, t) ==
    LET tentative == advance_point(center, direction, BALLSPEED, t)
        normal == BoundaryNormal(tentative)
        new_direction == IF normal # None THEN reflect(direction, normal) ELSE direction
        new_center == IF normal # None
                      THEN advance_point(center, new_direction, BALLSPEED, t)
                      ELSE tentative
    IN  ScanRows(center, ball_type, t, 0,
            [center |-> new_center, direction |-> new_direction, grid |-> g,
             boundary |-> normal, hits |-> <<>>])

(***************************************************************************)
(* process_events                                                          *)
(***************************************************************************)
Events == {"QUIT", "KEYDOWN_SPACE", "KEYDOWN_OTHER", "OTHER"}

EventLists == UNION {[1 .. n -> Events] : n \in 0 .. MaxEvents}

\* a handler in which every key toggles the pause
RECURSIVE process_events_anykey(_, _, _, _)
process_events_anykey(evs, k, r, p) ==
    IF k > Len(evs) THEN <<r, p>>
    ELSE IF evs[k] = "QUIT" THEN process_events_anykey(evs, k + 1, FALSE, p)
    ELSE IF evs[k] \in {"KEYDOWN_SPACE", "KEYDOWN_OTHER"}
    THEN process_events_anykey(evs, k + 1, r, ~p)
    ELSE process_events_anykey(evs, k + 1, r, p)

\* the state <<running, paused>> after the events of evs from index k on
RECURSIVE process_events(_, _, _, _)
process_events(evs, k, r, p) ==
    IF k > Len(evs) THEN <<r, p>>
    ELSE IF evs[k] = "QUIT" THEN process_events(evs, k + 1, FALSE, p)
    ELSE IF evs[k] = "KEYDOWN_SPACE" THEN process_events(evs, k + 1, r, ~p)
    ELSE process_events(evs, k + 1, r, p)

EventsStep(evs) ==
    LET after == process_events(evs, 1, running, paused)
    IN  /\ running' = after[1]
        /\ paused' = after[2]
        /\ UNCHANGED <<grid, dayball, nightball, dayball_direction,
                       nightball_direction>>

(***************************************************************************)
(* run                                                                     *)
(***************************************************************************)
\* what the last unpaused call of run did; before any, nothing
NoLast ==
    [ran |-> FALSE, dt |-> 0,
     day |-> [center |-> InitDayball, direction |-> InitDayDirection,
              boundary |-> None, hits |-> <<>>],
     night |-> [center |-> InitNightball, direction |-> InitNightDirection,
                boundary |-> None, hits |-> <<>>]]

\* a run that advances the night ball before the day ball
AdvanceNightFirst(t) ==
    LET night == run_ball(nightball, nightball_direction, grid, FALSE, t)
        day == run_ball(dayball, dayball_direction, night.grid, TRUE, t)
    IN  /\ dayball' = day.center
        /\ dayball_direction' = day.direction
        /\ nightball' = night.center
        /\ nightball_direction' = night.direction
        /\ grid' = day.grid
        /\ elapsed' = elapsed + t
        /\ last' = [ran |-> TRUE, dt |-> t,
                    day |-> [center |-> dayball, direction |-> dayball_direction,
                             boundary |-> day.boundary, hits |-> day.hits],
                    night |-> [center |-> nightball,
                               direction |-> nightball_direction,
                               boundary |-> night.boundary, hits |-> night.hits]]

\* lines 167-172: the day ball, then the night ball on the grid the day ball left
Advance(t) ==
    LET day == run_ball(dayball, dayball_direction, grid, TRUE, t)
        night == run_ball(nightball, nightball_direction, day.grid, FALSE, t)
    IN  /\ dayball' = day.center
        /\ dayball_direction' = day.direction
        /\ nightball' = night.center
        /\ nightball_direction' = night.direction
        /\ grid' = night.grid
        /\ elapsed' = elapsed + t
        /\ last' = [ran |-> TRUE, dt |-> t,
                    day |-> [center |-> dayball, direction |-> dayball_direction,
                             boundary |-> day.boundary, hits |-> day.hits],
                    night |-> [center |-> nightball,
                               direction |-> nightball_direction,
                               boundary |-> night.boundary, hits |-> night.hits]]

\* a run with the test of paused inverted
RunStepInverted(t) ==
    IF ~paused
    THEN UNCHANGED <<grid, dayball, nightball, dayball_direction,
                     nightball_direction, elapsed, last>>
    ELSE Advance(t)

\* a run without the test of paused
RunStepAlways(t) == Advance(t)

RunStep(t) ==
    IF paused
    THEN UNCHANGED <<grid, dayball, nightball, dayball_direction,
                     nightball_direction, elapsed, last>>
    ELSE Advance(t)

(***************************************************************************)
(* main: the loop of lines 181-187                                         *)
(***************************************************************************)
ClockTick == 1000 \div FRAMERATE

NoProbe == [called |-> FALSE, x |-> 0, y |-> 0, rect |-> Rect(0, 0, 0, 0), result |-> None]

Init ==
    /\ running = TRUE
    /\ paused = TRUE
    /\ grid = InitGrid
    /\ dayball = InitDayball
    /\ nightball = InitNightball
    /\ dayball_direction = InitDayDirection
    /\ nightball_direction = InitNightDirection
    /\ dt = (1 \div FRAMERATE) * 1000
    /\ pc = "events"
    /\ elapsed = 0
    /\ last = NoLast
    /\ probe = NoProbe

ProcessEvents ==
    /\ pc = "events"
    /\ \E evs \in EventLists : EventsStep(evs)
    /\ pc' = "run"
    /\ UNCHANGED <<dt, elapsed, last, probe>>

Run ==
    /\ pc = "run"
    /\ paused \/ elapsed + dt <= MaxElapsed
    /\ RunStep(dt)
    /\ pc' = "frame"
    /\ UNCHANGED <<running, paused, dt, probe>>

\* a loop that does not test running
FrameNoTest ==
    /\ pc = "frame"
    /\ dt' = ClockTick
    /\ pc' = "events"
    /\ UNCHANGED <<running, paused, grid, dayball, nightball, dayball_direction,
                   nightball_direction, elapsed, last, probe>>

\* draw, display.flip, clock.tick and the test of the while
Frame ==
    /\ pc = "frame"
    /\ dt' = ClockTick
    /\ pc' = IF running THEN "events" ELSE "done"
    /\ UNCHANGED <<running, paused, grid, dayball, nightball, dayball_direction,
                   nightball_direction, elapsed, last, probe>>

Next == ProcessEvents \/ Run \/ Frame

Spec == Init /\ [][Next]_vars

(***************************************************************************)
(* The main loop with a user who unpauses at once and then neither pauses  *)
(* nor quits, and a clock that settles on one frame length.  The loop      *)
(* never waits for anything, so it always takes its next step.             *)
(***************************************************************************)
\* what clock.tick(FRAMERATE) returns: 1000/60 ms is 16 or 17 in whole ms
LiveTicks == {ClockTick, ClockTick + 1}

\* the events of one pygame.event.get(): the space key while paused, then
\* events that neither pause nor quit
LiveEventLists ==
    IF paused THEN {<<"KEYDOWN_SPACE">>}
    ELSE UNION {[1 .. n -> {"KEYDOWN_OTHER", "OTHER"}] : n \in 0 .. MaxEvents}

LiveEvents ==
    /\ pc = "events"
    /\ \E evs \in LiveEventLists : EventsStep(evs)
    /\ pc' = "run"
    /\ UNCHANGED <<dt, elapsed, last, probe>>

LiveRun ==
    /\ pc = "run"
    /\ paused \/ elapsed + dt <= MaxLiveElapsed
    /\ RunStep(dt)
    /\ pc' = "frame"
    /\ UNCHANGED <<running, paused, dt, probe>>

LiveFrame ==
    /\ pc = "frame"
    /\ \E t \in LiveTicks : dt' = (IF dt = 0 THEN t ELSE dt)
    /\ pc' = IF running THEN "events" ELSE "done"
    /\ UNCHANGED <<running, paused, grid, dayball, nightball, dayball_direction,
                   nightball_direction, elapsed, last, probe>>

NextLive == LiveEvents \/ LiveRun \/ LiveFrame

\* LiveRun as pc shows it: of the steps of NextLive only LiveRun takes pc from
\* "run" to "frame", and it is enabled exactly when this is
LiveRunTaken ==
    /\ pc = "run"
    /\ paused \/ elapsed + dt <= MaxLiveElapsed
    /\ pc' = "frame"

SpecLive ==
    /\ Init /\ [][NextLive]_vars
    /\ WF_vars(LiveEvents) /\ WF_pc(LiveRunTaken) /\ WF_vars(LiveFrame)

(***************************************************************************)
(* The functions called directly, in any order and with any dt of ApiDts:  *)
(* process_events with any list of events, run with any dt.  pc names the  *)
(* last call.                                                              *)
(***************************************************************************)
ApiDts == {0, 1, ClockTick}

InitApi ==
    /\ running = TRUE
    /\ paused = TRUE
    /\ grid = InitGrid
    /\ dayball = InitDayball
    /\ nightball = InitNightball
    /\ dayball_direction = InitDayDirection
    /\ nightball_direction = InitNightDirection
    /\ dt = 0
    /\ pc = "api"
    /\ elapsed = 0
    /\ last = NoLast
    /\ probe = NoProbe

ApiEvents ==
    /\ pc \in {"api", "api_events", "api_run"}
    /\ \E evs \in EventLists : EventsStep(evs)
    /\ pc' = "api_events"
    /\ UNCHANGED <<dt, elapsed, last, probe>>

ApiRun ==
    /\ pc \in {"api", "api_events", "api_run"}
    /\ \E t \in ApiDts :
          /\ paused \/ elapsed + t <= MaxApiElapsed
          /\ RunStep(t)
          /\ dt' = t
    /\ pc' = "api_run"
    /\ UNCHANGED <<running, paused, probe>>

NextApi == ApiEvents \/ ApiRun

SpecApi == InitApi /\ [][NextApi]_vars

(***************************************************************************)
(* The same direct calls with run given 0 or the length of a frame, over   *)
(* enough frames for the balls to reach cells.                             *)
(***************************************************************************)
TickDts == {0, ClockTick}

TickRun ==
    /\ pc \in {"api", "api_events", "api_run"}
    /\ \E t \in TickDts :
          /\ paused \/ elapsed + t <= MaxTickElapsed
          /\ RunStep(t)
          /\ dt' = t
    /\ pc' = "api_run"
    /\ UNCHANGED <<running, paused, probe>>

NextTicks == ApiEvents \/ TickRun

SpecTicks == InitApi /\ [][NextTicks]_vars

(***************************************************************************)
(* ball_rect_collision alone, on centers with integer coordinates          *)
(* 0 .. ProbeMax against rectangles of the grid.                           *)
(***************************************************************************)
ProbeRects == {InitGrid[1][1][1], InitGrid[0][1][1]}

InitCollision ==
    /\ running = TRUE
    /\ paused = TRUE
    /\ grid = InitGrid
    /\ dayball = InitDayball
    /\ nightball = InitNightball
    /\ dayball_direction = InitDayDirection
    /\ nightball_direction = InitNightDirection
    /\ dt = 0
    /\ pc = "probe"
    /\ elapsed = 0
    /\ last = NoLast
    /\ \E x \in 0 .. ProbeMax, y \in 0 .. ProbeMax, r \in ProbeRects :
          probe = [called |-> FALSE, x |-> x, y |-> y, rect |-> r, result |-> None]

Collide ==
    /\ pc = "probe"
    /\ ~probe.called
    /\ probe' = [probe EXCEPT
                    !.called = TRUE,
                    !.result = ball_rect_collision(Vector2(probe.x, probe.y),
                                                   Q(BALLSIZE), probe.rect)]
    /\ UNCHANGED <<running, paused, grid, dayball, nightball, dayball_direction,
                   nightball_direction, dt, pc, elapsed, last>>

NextCollision == Collide

SpecCollision == InitCollision /\ [][NextCollision]_vars

(***************************************************************************)
(* run called once on a state with the grid as constructed and each ball  *)
(* at a point of BallCenters with one of the four diagonal directions:    *)
(* next to the walls and the corners of the world, and in its middle.     *)
(***************************************************************************)
\* coordinates of the centers: 2 from touching a wall, and the middle
BallCoords == {BALLSIZE + 2, (GRIDX * RECTSIZE) \div 2, GRIDX * RECTSIZE - BALLSIZE - 2}

BallCenters == {Vector2(x, y) : x \in BallCoords, y \in BallCoords}

BallDirections == {normalize(x, y) : x \in {-1, 1}, y \in {-1, 1}}

InitBall ==
    /\ running = TRUE
    /\ paused = FALSE
    /\ grid = InitGrid
    /\ dayball \in BallCenters
    /\ nightball \in BallCenters
    /\ dayball_direction \in BallDirections
    /\ nightball_direction \in BallDirections
    /\ dt = ClockTick
    /\ pc = "ball"
    /\ elapsed = 0
    /\ last = NoLast
    /\ probe = NoProbe

RunBalls ==
    /\ pc = "ball"
    /\ RunStep(dt)
    /\ pc' = "ball_done"
    /\ UNCHANGED <<running, paused, dt, probe>>

NextBall == RunBalls

SpecBall == InitBall /\ [][NextBall]_vars

(***************************************************************************)
(* Properties.  last holds what the last unpaused call of run did: for     *)
(* each ball the center and direction it was called with, the boundary     *)
(* normal it used and the cells it flipped, in order.                      *)
(***************************************************************************)
Balls == {"day", "night"}
\* the identity of a ball: day = TRUE, night = FALSE (lines 168, 171)
Identity(b) == b = "day"

Flips(b) == {last[b].hits[k] : k \in DOMAIN last[b].hits}

\* g with the flips of hits undone
Undo(g, hits) ==
    [j \in Rows |-> [i \in Cols |->
        IF \E k \in DOMAIN hits : hits[k].j = j /\ hits[k].i = i
        THEN <<g[j][i][1], ~g[j][i][2]>>
        ELSE g[j][i]]]

\* the grid each ball's call of run_ball started from
GridBefore(b) ==
    IF b = "night" THEN Undo(grid, last.night.hits)
    ELSE Undo(Undo(grid, last.night.hits), last.day.hits)

\* C1 as stated: every cell a ball of identity I flips was not-I before the
\* flip and is I after it.
C1_FlipsOtherKind ==
    last.ran =>
        \A b \in Balls : \A h \in Flips(b) :
            h.was = ~Identity(b) /\ h.now = Identity(b)

\* C1 amended: every cell a ball of identity I flips was I before the flip
\* and is not-I after it; a ball never flips a cell of the other kind.
C1_FlipsOwnKind ==
    last.ran =>
        \A b \in Balls : \A h \in Flips(b) :
            /\ h.was = Identity(b) /\ h.now = ~Identity(b)
            /\ GridBefore(b)[h.j][h.i][2] = Identity(b)

C1_Witness ==
    last.ran /\ last.day.hits # <<>> /\ last.night.hits # <<>>

\* the cells that pass the scan's test and collide with the ball at its
\* pre-tick center
Colliding(b) ==
    {c \in Rows \X Cols :
        /\ GridBefore(b)[c[1]][c[2]][2] = Identity(b)
        /\ ball_rect_collision(last[b].center, Q(BALLSIZE),
                               GridBefore(b)[c[1]][c[2]][1]) # None}

RowMajorBefore(c, d) == c[1] < d[1] \/ (c[1] = d[1] /\ c[2] <= d[2])

\* C2: one call of run_ball flips at most one cell, and when it flips one,
\* that cell is the first in row-major order among the cells that pass the
\* scan's test and collide with the ball at its pre-tick center.
C2_AtMostOneFlip ==
    last.ran =>
        \A b \in Balls :
            /\ Len(last[b].hits) <= 1
            /\ \A h \in Flips(b) :
                  /\ <<h.j, h.i>> \in Colliding(b)
                  /\ \A d \in Colliding(b) : RowMajorBefore(<<h.j, h.i>>, d)

\* a quarter of a unit: far more than any rounding of the doubles
Slack == <<1, 0>>

Inside(c) ==
    /\ Le(Q(BALLSIZE), Add(c[1], Slack))
    /\ Le(Sub(c[1], Slack), Q(GRIDX * RECTSIZE - BALLSIZE))
    /\ Le(Q(BALLSIZE), Add(c[2], Slack))
    /\ Le(Sub(c[2], Slack), Q(GRIDY * RECTSIZE - BALLSIZE))

\* C3: after every tick (the main loop's dt is at most ClockTick, a step of
\* 8 units) each ball's circle lies inside the world.
C3_Containment == Inside(dayball) /\ Inside(nightball)

\* the call of run a step makes, in the main loop or called directly
RunCalled == (pc = "run" /\ pc' = "frame") \/ pc' = "api_run"

\* C4: a call of run while paused, with any dt, leaves the grid, both
\* centers, both directions and running as they were.
C4_PauseInvariance ==
    [][(RunCalled /\ paused) =>
          UNCHANGED <<grid, dayball, nightball, dayball_direction,
                      nightball_direction, running>>]_vars

C4_Witness == pc = "api_run" /\ paused /\ elapsed > 0 /\ dt = ClockTick

ProbeLeft == left(probe.rect)
ProbeRight == right(probe.rect)
ProbeTop == top(probe.rect)
ProbeBottom == bottom(probe.rect)
ProbeInX == ProbeLeft <= probe.x /\ probe.x <= ProbeRight
ProbeInY == ProbeTop <= probe.y /\ probe.y <= ProbeBottom

\* C5: on a collision with the center's x within the horizontal span and its
\* y outside the vertical span the normal is (0, -1) for y < top and (0, 1)
\* for y > bottom; with y within the vertical span and x outside the
\* horizontal span it is (-1, 0) for x < left and (1, 0) for x > right.
C5_NormalSelection ==
    (probe.called /\ probe.result # None) =>
        /\ (ProbeInX /\ ~ProbeInY) =>
              probe.result = Vector2(0, IF probe.y < ProbeTop THEN -1 ELSE 1)
        /\ (ProbeInY /\ ~ProbeInX) =>
              probe.result = Vector2(IF probe.x < ProbeLeft THEN -1 ELSE 1, 0)

Max(a, b) == IF a >= b THEN a ELSE b
Min(a, b) == IF a <= b THEN a ELSE b

\* the squared distance from the probe center to the nearest point of the
\* rectangle: the center clamped to the rectangle on each axis
ProbeDistance2 ==
    LET nx == Max(ProbeLeft, Min(probe.x, ProbeRight))
        ny == Max(ProbeTop, Min(probe.y, ProbeBottom))
    IN  (probe.x - nx) * (probe.x - nx) + (probe.y - ny) * (probe.y - ny)

\* C6: the result is None exactly when the distance from the center to the
\* nearest point of the rectangle is greater than the radius; touching
\* (distance = radius) is a collision.
C6_CollisionIffWithinRadius ==
    probe.called =>
        ((probe.result = None) <=> (ProbeDistance2 > BALLSIZE * BALLSIZE))

\* a center touching the rectangle at a corner
C6_Witness ==
    /\ probe.called /\ probe.result # None
    /\ ProbeDistance2 = BALLSIZE * BALLSIZE
    /\ ~ProbeInX /\ ~ProbeInY

Center(b) == IF b = "day" THEN dayball ELSE nightball
Direction(b) == IF b = "day" THEN dayball_direction ELSE nightball_direction
InitDirection(b) == IF b = "day" THEN InitDayDirection ELSE InitNightDirection

\* the normals the last call of run_ball reflected across, in order
Normals(b) ==
    (IF last[b].boundary # None THEN <<last[b].boundary>> ELSE <<>>)
        \o [k \in DOMAIN last[b].hits |-> last[b].hits[k].normal]

AxisNormals == {Vector2(1, 0), Vector2(-1, 0), Vector2(0, 1), Vector2(0, -1)}

UnitLength(d) == Add(Sq(d[1]), Sq(d[2])) = Sq(Q(1))

\* d with the component along the axis of n negated
NegateAlong(d, n) ==
    IF n[1] # Q(0) THEN <<Neg(d[1]), d[2]>> ELSE <<d[1], Neg(d[2])>>

RECURSIVE NegateAll(_, _, _)
NegateAll(d, ns, k) ==
    IF k > Len(ns) THEN d ELSE NegateAll(NegateAlong(d, ns[k]), ns, k + 1)

\* C7: each direction has length 1 in every state, before and after every
\* tick; every normal a tick reflects across is (+-1, 0) or (0, +-1), each
\* reflection negates exactly one component, and both components keep the
\* absolute value they started with.
C7_UnitDirection ==
    \A b \in Balls :
        /\ UnitLength(Direction(b))
        /\ Direction(b)[1] \in {InitDirection(b)[1], Neg(InitDirection(b)[1])}
        /\ Direction(b)[2] \in {InitDirection(b)[2], Neg(InitDirection(b)[2])}
        /\ \A n \in AxisNormals :
              reflect(Direction(b), n) = NegateAlong(Direction(b), n)
        /\ last.ran =>
              /\ UnitLength(last[b].direction)
              /\ \A k \in DOMAIN Normals(b) : Normals(b)[k] \in AxisNormals
              /\ Direction(b) = NegateAll(last[b].direction, Normals(b), 1)

\* a tick in which a ball was reflected twice
C7_Witness == last.ran /\ Len(Normals("day")) >= 2

HasQuit(evs) == \E k \in DOMAIN evs : evs[k] = "QUIT"
Spaces(evs) == Cardinality({k \in DOMAIN evs : evs[k] = "KEYDOWN_SPACE"})

\* the lists of events that explain what a step did to running and paused
Explains(evs) == <<running', paused'>> = process_events(evs, 1, running, paused)

\* what C8 says of one step
RunningStep ==
    /\ (running' # running) =>
          /\ running /\ ~running'
          /\ pc = "events" /\ pc' = "run"
          /\ \A evs \in EventLists : Explains(evs) => HasQuit(evs)
    /\ ~running => ~running'
    /\ (~running /\ pc = "run") => pc' = "frame"
    /\ (~running /\ pc = "frame") => pc' = "done"
    /\ ~running => pc \in {"run", "frame"}
    /\ pc # "done"

\* C8: running is true initially; it changes only in process_events, only
\* from true to false and only when the events hold a QUIT; once false it
\* stays false; and after the iteration in which it became false the loop
\* ends: no process_events and no run follow.
C8_RunningLifecycle ==
    /\ running = TRUE
    /\ [][RunningStep]_vars

C8_Witness == pc = "done" /\ ~running /\ elapsed > 0

\* what C9 says of one step
PausedStep ==
    (pc = "events" /\ pc' = "run") =>
        /\ UNCHANGED <<grid, dayball, nightball, dayball_direction,
                       nightball_direction, elapsed>>
        /\ \A evs \in EventLists :
              Explains(evs) =>
                  /\ paused' = (IF Spaces(evs) % 2 = 1 THEN ~paused ELSE paused)
                  /\ (~HasQuit(evs) => running' = running)
        /\ Explains(<<"KEYDOWN_SPACE">>) => paused' = ~paused
        /\ Explains(<<"KEYDOWN_SPACE", "KEYDOWN_SPACE">>) =>
              (paused' = paused /\ running' = running)

\* C9: paused is true initially; process_events flips paused once per
\* KEYDOWN of the space key and not otherwise, so two toggles restore it;
\* it changes nothing of the grid and the balls, and running only on QUIT.
C9_PausedToggle ==
    /\ paused = TRUE
    /\ [][PausedStep]_vars

\* paused again after the balls have moved: toggled at least twice
C9_Witness == pc = "run" /\ paused /\ elapsed > 0

\* C10: from the constructed state (left half of the columns day, day ball
\* at (187.5, 125) with direction (1, 1)/sqrt 2) one unpaused tick with
\* dt = 1 reflects the day ball at no boundary and no cell: its center is
\* (187.5 + sqrt(2)/4, 125 + sqrt(2)/4), its direction is unchanged and it
\* flips no cell.
C10_FirstTick ==
    /\ ~last.ran =>
          /\ dayball = <<<<750, 0>>, <<500, 0>>>>
          /\ dayball_direction = <<<<0, 2>>, <<0, 2>>>>
          /\ \A j \in Rows, i \in Cols : grid[j][i][2] = (i < 5)
    /\ (last.ran /\ last.dt = 1 /\ elapsed = 1) =>
          /\ last.day.center = <<<<750, 0>>, <<500, 0>>>>
          /\ last.day.boundary = None
          /\ last.day.hits = <<>>
          /\ dayball = <<<<750, 1>>, <<500, 1>>>>
          /\ dayball_direction = last.day.direction
          /\ dayball_direction = <<<<0, 2>>, <<0, 2>>>>

C10_Witness == last.ran /\ last.dt = 1 /\ elapsed = 1

\* the tentative center of the last call of run_ball: the pre-tick center
\* advanced along the pre-tick direction
Tentative(b) ==
    advance_point(last[b].center, last[b].direction, BALLSPEED, last.dt)

TestLeft(c) == Lt(Sub(c[1], Q(BALLSIZE)), Q(0))
TestTop(c) == Lt(Sub(c[2], Q(BALLSIZE)), Q(0))
TestRight(c) == Gt(Add(c[1], Q(BALLSIZE)), Q(RECTSIZE * GRIDX))
TestBottom(c) == Gt(Add(c[2], Q(BALLSIZE)), Q(RECTSIZE * GRIDY))

\* the normal the claim names: that of the first test that holds
FirstBoundary(c) ==
    IF TestLeft(c) THEN Vector2(1, 0)
    ELSE IF TestTop(c) THEN Vector2(0, -1)
    ELSE IF TestRight(c) THEN Vector2(-1, 0)
    ELSE IF TestBottom(c) THEN Vector2(0, 1)
    ELSE None

HitNormals(b) == [k \in DOMAIN last[b].hits |-> last[b].hits[k].normal]

\* the pre-tick direction after the boundary step the claim describes
AfterBoundary(b) ==
    IF FirstBoundary(Tentative(b)) = None THEN last[b].direction
    ELSE NegateAlong(last[b].direction, FirstBoundary(Tentative(b)))

\* C11: one call of run_ball reflects at the boundary at most once, across the
\* normal of the first test that holds on the tentative center in the order
\* left (1, 0), top (0, -1), right (-1, 0), bottom (0, 1); in a corner only
\* the earlier test reflects, the other component is not negated by the
\* boundary step, and no test is made again on the recomputed position: the
\* returned direction is that one reflection followed by those of the cells.
C11_BoundaryPriority ==
    last.ran =>
        \A b \in Balls :
            /\ last[b].boundary = FirstBoundary(Tentative(b))
            /\ Direction(b) = NegateAll(AfterBoundary(b), HitNormals(b), 1)

\* a call whose tentative center is past two walls, for each of two corners
C11_Witness ==
    /\ last.ran
    /\ TestLeft(Tentative("day")) /\ TestTop(Tentative("day"))
    /\ TestRight(Tentative("night")) /\ TestBottom(Tentative("night"))

\* the columns of row j of g that the scan of ball b tests and finds colliding
RowHits(b, g, j) ==
    {i \in Cols :
        /\ g[j][i][2] = Identity(b)
        /\ ball_rect_collision(last[b].center, Q(BALLSIZE), g[j][i][1]) # None}

\* the cells the scan of ball b flips when it reads g: in each row the first
\* of RowHits
ScanOf(b, g) ==
    UNION {LET r == RowHits(b, g, j)
           IN  {<<j, i>> : i \in {c \in r : \A k \in r : c <= k}} : j \in Rows}

FlippedCells(b) == {<<h.j, h.i>> : h \in Flips(b)}

\* C12: in an unpaused tick the day ball is advanced, flips included, before
\* the night ball: the day ball's scan reads the grid of before the tick, and
\* the night ball's scan reads that grid with the day ball's flips made, so
\* it classifies a cell the day ball flipped by its new state.
C12_DayThenNight ==
    (last.ran /\ pc \in {"frame", "api_run", "ball_done"}) =>
        LET after_day == Undo(grid, last.night.hits)
            before == Undo(after_day, last.day.hits)
        IN  /\ FlippedCells("day") = ScanOf("day", before)
            /\ FlippedCells("night") = ScanOf("night", after_day)
            /\ \A h \in Flips("night") :
                  h.was = (IF <<h.j, h.i>> \in FlippedCells("day")
                           THEN ~before[h.j][h.i][2]
                           ELSE before[h.j][h.i][2])

\* a tick in which the night ball's scan hit a cell the day ball had flipped
C12_Witness ==
    last.ran /\ FlippedCells("day") \cap FlippedCells("night") # {}

\* v reflected across the normals of ns from index k on, in order
RECURSIVE ReflectAll(_, _, _)
ReflectAll(v, ns, k) ==
    IF k > Len(ns) THEN v ELSE ReflectAll(reflect(v, ns[k]), ns, k + 1)

\* c + d * BALLSPEED * t
Moved(c, d, t) ==
    <<Add(c[1], ScaleInt(Mul(d[1], BALLSPEED), t)),
      Add(c[2], ScaleInt(Mul(d[2], BALLSPEED), t))>>

C14_FallbackNormal ==
    (probe.called /\ ProbeDistance2 <= BALLSIZE * BALLSIZE) =>
        /\ probe.result \in AxisNormals
        /\ (~ProbeInX /\ ~ProbeInY) => probe.result = Vector2(1, 0)
        /\ (ProbeInX /\ ProbeInY) => probe.result = Vector2(1, 0)

\* a collision at the top left corner, where the sides in x and y point away
\* from (1, 0)
C14_Witness ==
    /\ probe.called /\ probe.result = Vector2(1, 0)
    /\ probe.x < ProbeLeft /\ probe.y < ProbeTop
    /\ ProbeDistance2 < BALLSIZE * BALLSIZE

\* C15: an unpaused tick with dt = 0 leaves both centers where they were,
\* finds no cell collision, flips no cell and keeps both directions.
C15_ZeroDtNoOp ==
    (last.ran /\ last.dt = 0) =>
        \A b \in Balls :
            /\ Center(b) = last[b].center
            /\ last[b].hits = <<>>
            /\ Direction(b) = last[b].direction

\* c lies inside the rectangle r or on its border
InRect(c, r) ==
    /\ Le(Q(left(r)), c[1]) /\ Le(c[1], Q(right(r)))
    /\ Le(Q(top(r)), c[2]) /\ Le(c[2], Q(bottom(r)))

\* C16: in every state neither ball's center lies inside, or on the border
\* of, the rectangle of a cell its own scan tests: a cell of the ball's kind.
C16_CenterOutsideTestedCells ==
    \A b \in Balls : \A j \in Rows, i \in Cols :
        grid[j][i][2] = Identity(b) => ~InRect(Center(b), grid[j][i][1])

Cells == Rows \X Cols

\* the number of day cells of g
DayCount(g) == Cardinality({c \in Cells : g[c[1]][c[2]][2]})

\* the cells whose state differs between g and h
Changed(g, h) == {c \in Cells : g[c[1]][c[2]][2] # h[c[1]][c[2]][2]}

\* what C17 says of one step
BoundedChangeStep ==
    /\ DOMAIN grid' = Rows
    /\ \A j \in Rows : DOMAIN grid'[j] = Cols
    /\ \A c \in Cells : grid'[c[1]][c[2]][1] = grid[c[1]][c[2]][1]
    /\ (RunCalled /\ ~paused) =>
          /\ Cardinality(Changed(grid, grid')) <= 2
          /\ Len(last'.day.hits) <= 1 /\ Len(last'.night.hits) <= 1
          /\ DayCount(grid') - DayCount(grid) \in {-1, 0, 1}

\* C17: one unpaused tick changes the state of at most two cells, at most one
\* for each ball, and the number of day cells by at most 1; no step changes
\* a cell's rectangle or the dimensions of the grid.
C17_BoundedGridChange == [][BoundedChangeStep]_vars

\* the squared length of q - p, in sixteenths
Dist2(p, q) == Add(Sq(Sub(q[1], p[1])), Sq(Sub(q[2], p[2])))

\* every unpaused call of run moves each center by BALLSPEED * dt
MoveStep ==
    (pc = "run" /\ pc' = "frame" /\ ~paused) =>
        /\ Dist2(dayball, dayball') = Sq(ScaleInt(BALLSPEED, dt))
        /\ Dist2(nightball, nightball') = Sq(ScaleInt(BALLSPEED, dt))
        /\ dt > 0 => (dayball' # dayball /\ nightball' # nightball)

\* C18: once the simulation is unpaused and ticks keep coming with one frame
\* length, with no quit and no pause, every tick moves both balls by
\* BALLSPEED * dt and each ball eventually flips a cell, so the grid
\* eventually differs from its initial colouring.
C18_Progress ==
    /\ [][MoveStep]_vars
    /\ <>(last.ran /\ last.day.hits # <<>>)
    /\ <>(last.ran /\ last.night.hits # <<>>)
    /\ <>(grid # InitGrid)

\* a tick of positive length in which the day ball flipped a cell
C18_Witness ==
    /\ pc = "frame" /\ ~paused /\ last.ran /\ last.dt = ClockTick + 1
    /\ last.day.hits # <<>> /\ grid # InitGrid
    /\ dayball # last.day.center

====
